---- MODULE Spec2Model ----
(***************************************************************************)
(* A model of buzzer_music::Player (src/src/lib.rs): the tick-driven note   *)
(* sequencer that plays a Song on PWM_COUNT buzzers.                        *)
(*                                                                          *)
(* The player's fields are the variables below.  Every public method is one *)
(* action; the private methods (reset_internally, play_beat,                *)
(* set_frequency_and_duty) and get_top are operators over a record `self`   *)
(* holding the mutable fields, translated statement by statement.           *)
(* Sequences are 1-based here and 0-based in the source: playing_notes[i]   *)
(* of the source is playing_notes[i + 1] of the model.                      *)
(***************************************************************************)
EXTENDS Integers, Sequences, FiniteSets, TLC

VARIABLES
    \* ---- fields set by Player::new and never written again
    song,                         \* &Song: [notes, end]
    looping,
    ticks_per_beat,
    duty,
    PWM_COUNT,                    \* const generic
    MAX_SIMULTANEOUS_NOTES,       \* const generic
    \* ---- mutable fields
    pwms,                         \* 1..PWM_COUNT -> state of the embassy Pwm
    paused,
    timer,
    beat_timer,
    beat,
    current_combined_note_index,
    playing_notes,
    \* ---- the process
    panicked,                     \* a panic unwound out of the last call
    \* ---- history (written, never read, by the player)
    last,                         \* the last public call and what it did
    hist,                         \* tick() calls since construction, while only tick() was called
    rs,                           \* tick() calls since the last restart()
    expected,                     \* admitted notes and their age in beat advances
    mux_log                       \* note indices the multiplexing step programmed

config == <<song, looping, ticks_per_beat, duty, PWM_COUNT, MAX_SIMULTANEOUS_NOTES>>
fields == <<pwms, paused, timer, beat_timer, beat, current_combined_note_index,
            playing_notes>>
history == <<last, hist, rs, expected, mux_log>>
vars == <<config, fields, panicked, history>>

(***************************************************************************)
(* Bounds of the model.                                                     *)
(***************************************************************************)
MaxTicksPerBeat == 3
MaxEnd == 2
MaxPwm == 2
MaxNotes == 3
\* tick() is not called once a counter is this far past the longest loop
MaxOverrun == 2

TimerCap == MaxTicksPerBeat * MaxEnd + MaxOverrun

(***************************************************************************)
(* Program constants.                                                       *)
(***************************************************************************)
PWM_DIV_INT == 64
InputClock == 150000000
U16 == 65536

\* the duty passed to Player::new in the crate's example
ExampleDuty == 100

(***************************************************************************)
(* Scores.  A slot is Option<&[NoteAndDuration]>.                           *)
(***************************************************************************)
None == [some |-> FALSE, notes |-> <<>>]
Some(ns) == [some |-> TRUE, notes |-> ns]
NoteAndDuration(f, d) == [frequency |-> f, duration |-> d]

\* The `notes` arrays the model plays; every note of a score has its own
\* frequency.  Song.end is chosen apart from them.
ScenarioNotes ==
    << Some(<<NoteAndDuration(440, 1)>>), Some(<<NoteAndDuration(880, 1)>>) >>
ChordNotes ==
    << Some(<<NoteAndDuration(440, 3), NoteAndDuration(550, 1), NoteAndDuration(660, 2)>>),
       Some(<<NoteAndDuration(880, 2)>>) >>
RestNotes ==
    << None, Some(<<NoteAndDuration(880, 2), NoteAndDuration(990, 1)>>) >>
SingleNotes ==
    << Some(<<NoteAndDuration(440, 2)>>) >>

Scores == {ScenarioNotes, ChordNotes, RestNotes, SingleNotes}

Songs == {[notes |-> n, end |-> e] : n \in Scores, e \in 1..MaxEnd}

(***************************************************************************)
(* u16 arithmetic (release build: wrapping).                                *)
(***************************************************************************)
U16Add(a, b) == (a + b) % U16
U16Sub(a, b) == (a - b + U16) % U16
U16Mul(a, b) == (a * b) % U16

(***************************************************************************)
(* get_top: 150_000_000. / (freq * div_int), the two range assertions, and  *)
(* `result as u16 - 1`.  With x = freq * div_int, q and r the quotient and  *)
(* remainder of 150_000_000 by x: result >= 1.0 iff q >= 1, result <=       *)
(* 65535.0 iff q < 65535 or (q = 65535 and r = 0), and `result as u16` is   *)
(* q.  x < 2^24, so the f64 quotient lies on the same side of every integer *)
(* as the rational one.  freq = 0 makes the quotient infinite.              *)
(***************************************************************************)
\* a get_top that rounds the quotient to the nearest integer
GetTopRounding(freq, div_int) ==
    IF div_int = 0 \/ freq = 0 THEN [panic |-> TRUE, top |-> 0]
    ELSE LET x == freq * div_int
             q == InputClock \div x
             r == InputClock % x
         IN  IF ~(q >= 1) THEN [panic |-> TRUE, top |-> 0]
             ELSE IF ~(q < 65535 \/ (q = 65535 /\ r = 0)) THEN [panic |-> TRUE, top |-> 0]
             ELSE [panic |-> FALSE, top |-> ((2 * InputClock + x) \div (2 * x)) - 1]

get_top(freq, div_int) ==
    IF div_int = 0 THEN [panic |-> TRUE, top |-> 0]
    ELSE IF freq = 0 THEN [panic |-> TRUE, top |-> 0]
    ELSE LET x == freq * div_int
             q == InputClock \div x
             r == InputClock % x
         IN  IF ~(q >= 1) THEN [panic |-> TRUE, top |-> 0]
             ELSE IF ~(q < 65535 \/ (q = 65535 /\ r = 0)) THEN [panic |-> TRUE, top |-> 0]
             ELSE [panic |-> FALSE, top |-> q - 1]

(***************************************************************************)
(* The embassy_rp Pwm as the player drives it.  `frequency` is the tone the *)
(* configured top stands for; a channel sounds iff its duty is not 0.       *)
(***************************************************************************)
PwmDefault == [frequency |-> 0, top |-> 65535, duty |-> 0]

Off(ch) == [k |-> "off", ch |-> ch, frequency |-> 0]
Tone(ch, f) == [k |-> "tone", ch |-> ch, frequency |-> f]

\* pwm.set_duty_cycle_fully_off() on channel i (0-based)
set_duty_cycle_fully_off(self, i) ==
    [self EXCEPT !.pwms[i + 1].duty = 0,
                 !.calls = Append(@, Off(i))]

set_frequency_and_duty(self, pwm_index, frequency, d) ==
    LET off == set_duty_cycle_fully_off(self, pwm_index)
        t == get_top(frequency, PWM_DIV_INT)
    IN  IF t.panic THEN [off EXCEPT !.panicked = TRUE]
        ELSE [off EXCEPT !.pwms[pwm_index + 1] =
                            [frequency |-> frequency, top |-> t.top, duty |-> d],
                         !.calls = Append(@, Tone(pwm_index, frequency))]

(***************************************************************************)
(* The mutable part of the player as a record, with what a call reports:   *)
(* `calls` the hardware calls it made, `ret` tick's result, `beat_adv`      *)
(* whether it ran play_beat, `mux` the note index (0-based) the             *)
(* multiplexing step read, or -1.                                           *)
(***************************************************************************)
Self ==
    [pwms |-> pwms, paused |-> paused, timer |-> timer, beat_timer |-> beat_timer,
     beat |-> beat, current_combined_note_index |-> current_combined_note_index,
     playing_notes |-> playing_notes,
     panicked |-> FALSE, calls |-> <<>>, ret |-> TRUE, beat_adv |-> FALSE, mux |-> -1]

\* for i in 0..PWM_COUNT { self.pwms[i].set_duty_cycle_fully_off() }
RECURSIVE MuteFrom(_, _)
MuteFrom(self, i) ==
    IF i >= PWM_COUNT THEN self
    ELSE MuteFrom(set_duty_cycle_fully_off(self, i), i + 1)

PauseNoMute(self) ==
    IF ~self.paused THEN [self EXCEPT !.paused = TRUE] ELSE self

pause(self) ==
    IF ~self.paused
    THEN [MuteFrom(self, 0) EXCEPT !.paused = TRUE]
    ELSE self

\* a resume that starts a fresh beat
ResumeRealigning(self) ==
    IF self.paused THEN [self EXCEPT !.paused = FALSE, !.beat_timer = 0] ELSE self

resume(self) ==
    IF self.paused THEN [self EXCEPT !.paused = FALSE] ELSE self

\* a reset that leaves the timer running
ResetBeatOnly(self) ==
    [self EXCEPT !.beat = -1]

\* a reset that also silences the channels
ResetMuting(self) ==
    [MuteFrom(self, 0) EXCEPT !.beat = -1, !.timer = 0]

reset_internally(self) ==
    [self EXCEPT !.beat = -1, !.timer = 0]

restart(self) ==
    resume(pause(reset_internally(self)))

(***************************************************************************)
(* play_beat                                                                *)
(***************************************************************************)
\* ArrayVec::remove(i), i 0-based: the later elements shift down
Remove(v, i) ==
    [k \in 1..(Len(v) - 1) |-> IF k <= i THEN v[k] ELSE v[k + 1]]

\* the loop `while i < self.playing_notes.len()` of play_beat, from index i
RECURSIVE RetireSkipping(_, _)
RetireSkipping(notes, i) ==
    IF ~(i < Len(notes)) THEN notes
    ELSE LET dec == [notes EXCEPT ![i + 1].duration = U16Sub(@, 1)]
         IN  IF dec[i + 1].duration <= 0
             THEN RetireSkipping(Remove(dec, i), i + 1)
             ELSE RetireSkipping(dec, i + 1)

RECURSIVE Retire(_, _)
Retire(notes, i) ==
    IF ~(i < Len(notes)) THEN notes
    ELSE LET dec == [notes EXCEPT ![i + 1].duration = U16Sub(@, 1)]
         IN  IF dec[i + 1].duration <= 0
             THEN Retire(Remove(dec, i), i)
             ELSE Retire(dec, i + 1)

\* a push that drops the note when the vector is full
PushDropping(self, note) ==
    IF Len(self.playing_notes) >= MAX_SIMULTANEOUS_NOTES
    THEN self
    ELSE [self EXCEPT !.playing_notes = Append(@, note)]

\* ArrayVec::push: panics when the vector is already full
Push(self, note) ==
    IF Len(self.playing_notes) >= MAX_SIMULTANEOUS_NOTES
    THEN [self EXCEPT !.panicked = TRUE]
    ELSE [self EXCEPT !.playing_notes = Append(@, note)]

\* an admission that takes the notes of the slot last to first
RECURSIVE PushAllReversed(_, _, _)
PushAllReversed(self, notes, k) ==
    IF self.panicked \/ k > Len(notes) THEN self
    ELSE PushAllReversed(Push(self, notes[Len(notes) - k + 1]), notes, k + 1)

\* for note in *notes { self.playing_notes.push(*note) }, from the k-th note
RECURSIVE PushAll(_, _, _)
PushAll(self, notes, k) ==
    IF self.panicked \/ k > Len(notes) THEN self
    ELSE PushAll(Push(self, notes[k]), notes, k + 1)

Admit(self) ==
    IF self.beat < Len(song.notes)
    THEN LET slot == song.notes[self.beat + 1]
         IN  IF slot.some THEN PushAll(self, slot.notes, 1) ELSE self
    ELSE self

\* a refresh that leaves the channels beyond the sounding notes as they were
RECURSIVE RefreshNoMute(_, _)
RefreshNoMute(self, i) ==
    IF self.panicked \/ ~(i < PWM_COUNT) THEN self
    ELSE IF i >= Len(self.playing_notes)
         THEN RefreshNoMute(self, i + 1)
         ELSE RefreshNoMute(set_frequency_and_duty(self, i,
                          self.playing_notes[i + 1].frequency, duty), i + 1)

\* the loop `while i < PWM_COUNT` of play_beat, from channel i
RECURSIVE Refresh(_, _)
Refresh(self, i) ==
    IF self.panicked \/ ~(i < PWM_COUNT) THEN self
    ELSE IF i >= Len(self.playing_notes)
         THEN Refresh(set_duty_cycle_fully_off(self, i), i + 1)
         ELSE Refresh(set_frequency_and_duty(self, i,
                          self.playing_notes[i + 1].frequency, duty), i + 1)

play_beat(self) ==
    LET s1 == [self EXCEPT !.beat = @ + 1, !.beat_adv = TRUE]
        s2 == [s1 EXCEPT !.playing_notes = Retire(@, 0)]
        s3 == Admit(s2)
    IN  Refresh(s3, 0)

(***************************************************************************)
(* tick                                                                     *)
(***************************************************************************)
\* a cursor that wraps one note early
WrapCursorEarly(index, len) ==
    IF index >= (len - PWM_COUNT) THEN 0 ELSE index

\* a cursor that wraps only once it is past the whole list
WrapCursorLate(index, len) ==
    IF index > len THEN 0 ELSE index

\* `if self.current_combined_note_index > (len - PWM_COUNT) { ... = 0 }`
WrapCursor(index, len) ==
    IF index > (len - PWM_COUNT) THEN 0 ELSE index

\* the multiplexing step: `if self.playing_notes.len() > PWM_COUNT { ... }`
Multiplex(self) ==
    IF Len(self.playing_notes) > PWM_COUNT
    THEN LET idx == WrapCursor(self.current_combined_note_index, Len(self.playing_notes))
             at == idx + PWM_COUNT - 1
         IN  IF ~(at < Len(self.playing_notes))
             THEN [self EXCEPT !.current_combined_note_index = idx,
                               !.mux = at,
                               !.panicked = TRUE]        \* index out of bounds
             ELSE LET set == set_frequency_and_duty(
                                 [self EXCEPT !.current_combined_note_index = idx,
                                              !.mux = at],
                                 PWM_COUNT - 1, self.playing_notes[at + 1].frequency, duty)
                  IN  IF set.panicked THEN set
                      ELSE [set EXCEPT !.current_combined_note_index = @ + 1]
    ELSE self

\* `if self.beat_timer == self.ticks_per_beat { play_beat(); beat_timer = 0 }`
BeatBoundary(self) ==
    IF self.beat_timer = ticks_per_beat
    THEN LET played == play_beat(self)
         IN  IF played.panicked THEN played
             ELSE [played EXCEPT !.beat_timer = 0]
    ELSE self

\* self.ticks_per_beat * self.song.end, in u16
LoopLength == U16Mul(ticks_per_beat, song.end)

\* a loop one beat longer than song.end
AtLoopEndInclusive(t) ==
    t # 0 /\ (t % U16Mul(ticks_per_beat, song.end + 1) = 0)

\* `self.timer != 0 && (self.timer % (self.ticks_per_beat * self.song.end) == 0)`
AtLoopEnd(t) ==
    t # 0 /\ (t % LoopLength = 0)

\* tick() past the `if self.paused` test
Advance(self) ==
    LET s1 == [self EXCEPT !.timer = U16Add(@, 1), !.beat_timer = U16Add(@, 1)]
    IN  IF s1.timer # 0 /\ LoopLength = 0
        THEN [s1 EXCEPT !.panicked = TRUE]       \* remainder by zero
        ELSE IF AtLoopEnd(s1.timer)
             THEN IF ~looping
                  THEN [pause(s1) EXCEPT !.ret = FALSE]
                  ELSE LET s2 == BeatBoundary(reset_internally(s1))
                       IN  IF s2.panicked THEN s2 ELSE Multiplex(s2)
             ELSE LET s2 == BeatBoundary(s1)
                  IN  IF s2.panicked THEN s2 ELSE Multiplex(s2)

\* a tick that does not look at `paused`
TickUnguarded(self) ==
    Advance(self)

tick(self) ==
    IF self.paused
    THEN [self EXCEPT !.ret = FALSE]
    ELSE Advance(self)

(***************************************************************************)
(* History.                                                                 *)
(***************************************************************************)
\* what the score starts at beat b, as [frequency, d, age] records
Admitted(b) ==
    IF b >= 0 /\ b < Len(song.notes) /\ song.notes[b + 1].some
    THEN [k \in 1..Len(song.notes[b + 1].notes) |->
             [frequency |-> song.notes[b + 1].notes[k].frequency,
              d |-> song.notes[b + 1].notes[k].duration,
              age |-> 0]]
    ELSE <<>>

Unexpired(e) == e.age < e.d

\* every sounding note one beat older, the expired ones gone, then the notes of beat b
ExpectedAfterBeat(exp, b) ==
    SelectSeq([k \in 1..Len(exp) |-> [exp[k] EXCEPT !.age = @ + 1]], Unexpired)
        \o Admitted(b)

\* the last w entries of log
Window(log, w) ==
    IF Len(log) <= w THEN log ELSE SubSeq(log, Len(log) - w + 1, Len(log))

\* was_paused, was_index: `paused` and the cursor when the call began
Report(s, op) ==
    [op |-> op, was_paused |-> paused, was_index |-> current_combined_note_index,
     ret |-> s.ret, beat_adv |-> s.beat_adv, calls |-> s.calls, mux |-> s.mux]

Store(s, op) ==
    /\ pwms' = s.pwms
    /\ paused' = s.paused
    /\ timer' = s.timer
    /\ beat_timer' = s.beat_timer
    /\ beat' = s.beat
    /\ current_combined_note_index' = s.current_combined_note_index
    /\ playing_notes' = s.playing_notes
    /\ panicked' = s.panicked
    /\ last' = Report(s, op)
    /\ UNCHANGED config

(***************************************************************************)
(* Player::new                                                              *)
(***************************************************************************)
\* the fields Player::new sets itself, and the empty history
Constructed ==
    /\ pwms = [i \in 1..PWM_COUNT |-> PwmDefault]
    /\ paused = FALSE
    /\ timer = 0
    /\ beat_timer = 0
    /\ beat = -1
    /\ current_combined_note_index = 0
    /\ playing_notes = <<>>
    /\ panicked = FALSE
    /\ last = [op |-> "new", was_paused |-> FALSE, was_index |-> 0, ret |-> TRUE,
               beat_adv |-> FALSE, calls |-> <<>>, mux |-> -1]
    /\ hist = [only |-> TRUE, n |-> 0]
    /\ rs = [active |-> FALSE, n |-> 0, done |-> FALSE]
    /\ expected = <<>>
    /\ mux_log = <<>>

Init ==
    /\ song \in Songs
    /\ looping \in BOOLEAN
    /\ ticks_per_beat \in 1..MaxTicksPerBeat
    /\ duty = ExampleDuty
    /\ PWM_COUNT \in 1..MaxPwm
    /\ MAX_SIMULTANEOUS_NOTES \in 1..MaxNotes
    /\ Constructed

(***************************************************************************)
(* The public methods.                                                      *)
(***************************************************************************)
\* one call of tick(), with the history it leaves
TickCall ==
    /\ ~panicked
    /\ LET s == tick(Self)
       IN  /\ Store(s, "tick")
           /\ hist' = IF hist.only THEN [hist EXCEPT !.n = @ + 1] ELSE hist
           /\ rs' = IF rs.active /\ rs.n < ticks_per_beat
                    THEN [rs EXCEPT !.n = @ + 1,
                                    !.done = @ \/ (s.beat_adv /\ s.beat = 0 /\ ~s.panicked)]
                    ELSE rs
           /\ expected' = IF s.beat_adv THEN ExpectedAfterBeat(expected, s.beat)
                          ELSE expected
           /\ mux_log' =
                IF ~s.ret \/ s.panicked THEN mux_log
                ELSE IF s.mux = -1 THEN <<>>
                ELSE Window(Append(IF s.beat_adv THEN <<>> ELSE mux_log, s.mux),
                            Len(s.playing_notes) - PWM_COUNT + 1)

Tick ==
    /\ timer < TimerCap /\ beat_timer < TimerCap /\ hist.n < TimerCap
    /\ TickCall

Pause ==
    /\ ~panicked
    /\ Store(pause(Self), "pause")
    /\ hist' = [only |-> FALSE, n |-> 0]
    /\ rs' = [active |-> FALSE, n |-> 0, done |-> FALSE]
    /\ UNCHANGED <<expected, mux_log>>

Resume ==
    /\ ~panicked
    /\ Store(resume(Self), "resume")
    /\ hist' = [only |-> FALSE, n |-> 0]
    /\ rs' = [active |-> FALSE, n |-> 0, done |-> FALSE]
    /\ UNCHANGED <<expected, mux_log>>

Restart ==
    /\ ~panicked
    /\ Store(restart(Self), "restart")
    /\ hist' = [only |-> FALSE, n |-> 0]
    /\ rs' = [active |-> TRUE, n |-> 0, done |-> FALSE]
    /\ UNCHANGED <<expected, mux_log>>

Next == Tick \/ Pause \/ Resume \/ Restart

Spec == Init /\ [][Next]_vars

(***************************************************************************)
(* Claims.                                                                  *)
(***************************************************************************)
Muted(i) == pwms[i].duty = 0
AllMuted == \A i \in 1..PWM_COUNT : Muted(i)
Sounding(i, f) == pwms[i].frequency = f /\ pwms[i].duty = duty /\ duty # 0

\* C1: restart() leaves the player in the state it had right after
\* construction: not paused, timer = 0, beat_timer = 0, beat = -1, multiplex
\* cursor = 0 and no sounding note (only the channels may differ).
C1_RestartIsNew ==
    (last.op = "restart" /\ ~panicked) =>
        /\ paused = FALSE
        /\ timer = 0
        /\ beat_timer = 0
        /\ beat = -1
        /\ current_combined_note_index = 0
        /\ playing_notes = <<>>

\* C2: after restart() the player is not paused, and with tick() alone called
\* from there a beat advance to beat 0 happens within ticks_per_beat calls.
C2_RestartPlaysBeatZero ==
    /\ (last.op = "restart" /\ ~panicked) => ~paused
    /\ (rs.active /\ rs.n = ticks_per_beat /\ ~panicked) => rs.done

\* The scenario of C3: ticks_per_beat = 3, song.end = 2, one channel, not
\* looping, 440 Hz for one beat at beat 0 and 880 Hz for one beat at beat 1,
\* played by tick() alone since construction.
Scenario ==
    /\ song = [notes |-> ScenarioNotes, end |-> 2]
    /\ ticks_per_beat = 3
    /\ PWM_COUNT = 1
    /\ ~looping
    /\ hist.only

\* C3: in the scenario ticks 1-2 change no beat (beat = -1, channel silent),
\* tick 3 performs beat 0 and programs 440 Hz, tick 6 performs beat 1 and
\* programs 880 Hz, then pauses with the channel muted.
C3_ScenarioPlaysBothBeats ==
    Scenario =>
        /\ hist.n \in 1..2 => (beat = -1 /\ Muted(1) /\ ~last.beat_adv)
        /\ hist.n = 3 => (beat = 0 /\ last.beat_adv /\ Sounding(1, 440))
        /\ hist.n = 6 => /\ last.beat_adv
                         /\ beat = 1
                         /\ \E k \in 1..Len(last.calls) : last.calls[k] = Tone(0, 880)
                         /\ paused
                         /\ Muted(1)

\* C4: while paused, tick() returns false and changes no field and no channel.
C4_PausedTickIsNoOp ==
    [][(paused /\ last'.op = "tick") =>
          /\ last'.ret = FALSE
          /\ last'.calls = <<>>
          /\ UNCHANGED fields
          /\ panicked' = panicked]_vars

C4_Witness ==
    /\ last.op = "tick"
    /\ last.was_paused
    /\ timer > 0
    /\ Len(playing_notes) > 0

\* C5: not looping and only tick() called since construction: the player is
\* paused from call number ticks_per_beat * song.end on and not before, that
\* call mutes every channel and returns false, and timer stays where it was.
C5_StopsOnceAtLoopEnd ==
    (~looping /\ hist.only /\ ~panicked) =>
        LET L == ticks_per_beat * song.end
        IN  /\ paused <=> hist.n >= L
            /\ hist.n < L => timer = hist.n
            /\ hist.n \in 1..(L - 1) => last.ret = TRUE
            /\ hist.n >= L => (timer = L /\ AllMuted /\ last.ret = FALSE)
            /\ hist.n = L => last.calls = [i \in 1..PWM_COUNT |-> Off(i - 1)]
            /\ hist.n > L => last.calls = <<>>

C5_Witness ==
    /\ ~looping /\ hist.only /\ ~panicked
    /\ hist.n > ticks_per_beat * song.end
    /\ Len(playing_notes) > 0
    /\ paused

\* C6: looping and not paused: tick() adds 1 to timer, except that the call
\* on which timer reaches ticks_per_beat * song.end sets it to 0 and beat to -1
\* before the call's beat step (so beat is 0 after it if the call is also a
\* beat boundary, else -1); timer stays in [0, ticks_per_beat * song.end - 1]
\* between calls and tick() never pauses the player.
C6_LoopingTimerWraps ==
    /\ [](looping => timer \in 0..(ticks_per_beat * song.end - 1))
    /\ [][(looping /\ ~paused /\ last'.op = "tick") =>
             LET L == ticks_per_beat * song.end
             IN  /\ timer' = IF timer + 1 = L THEN 0 ELSE timer + 1
                 /\ ~paused'
                 /\ last'.ret = TRUE
                 /\ (timer + 1 = L) =>
                        beat' = IF last'.beat_adv THEN 0 ELSE -1]_vars

C6_Witness ==
    /\ looping /\ hist.only /\ ~panicked
    /\ last.op = "tick"
    /\ hist.n = ticks_per_beat * song.end
    /\ song.end > 1
    /\ timer = 0
    /\ beat = 0

\* C7: a note of duration d admitted at a beat advance is in the list after
\* that advance and after each of the next d-1 advances, with d minus its age
\* beats left, and is gone after the d-th; a loop reset does not clear it.
C7_NoteSoundsForItsDuration ==
    ~panicked =>
        /\ Len(playing_notes) = Len(expected)
        /\ \A k \in 1..Len(expected) :
              /\ expected[k].age < expected[k].d
              /\ playing_notes[k].frequency = expected[k].frequency
              /\ playing_notes[k].duration = expected[k].d - expected[k].age

\* a note admitted before a loop reset and still sounding after it
C7_Witness ==
    /\ looping /\ hist.only /\ ~panicked
    /\ \E k \in 1..Len(expected) :
          /\ expected[k].d >= 2
          /\ expected[k].age = expected[k].d - 1
          /\ beat < expected[k].age
          /\ playing_notes[k].duration = 1

\* C8: with N > PWM_COUNT sounding notes and the list unchanged, consecutive
\* ticks program the last channel with the overflow notes (indices
\* PWM_COUNT-1 .. N-1) in list order with wrap-around, each once in any
\* N - PWM_COUNT + 1 consecutive ticks.
C8_MultiplexCyclesOverflow ==
    ~panicked =>
        LET N == Len(playing_notes)
            first == PWM_COUNT - 1
        IN  /\ \A k \in 1..Len(mux_log) : mux_log[k] \in first..(N - 1)
            /\ \A k \in 1..(Len(mux_log) - 1) :
                  mux_log[k + 1] = IF mux_log[k] = N - 1 THEN first ELSE mux_log[k] + 1
            /\ Len(mux_log) = N - PWM_COUNT + 1 =>
                  {mux_log[k] : k \in 1..Len(mux_log)} = first..(N - 1)
            /\ (last.op = "tick" /\ last.mux # -1) =>
                  /\ mux_log # <<>>
                  /\ mux_log[Len(mux_log)] = last.mux
                  /\ Sounding(PWM_COUNT, playing_notes[last.mux + 1].frequency)

\* a full window that wraps around inside it
C8_Witness ==
    /\ ~panicked
    /\ Len(playing_notes) > PWM_COUNT
    /\ Len(mux_log) = Len(playing_notes) - PWM_COUNT + 1
    /\ Len(mux_log) >= 3
    /\ mux_log[1] # PWM_COUNT - 1

\* C9: a beat advance that would admit a note into a full list panics; short
\* of a panic the list is within capacity and holds every admitted, unexpired
\* note, and nothing else makes the player panic.
C9_FullListPanics ==
    /\ Len(expected) > MAX_SIMULTANEOUS_NOTES <=> panicked
    /\ Len(playing_notes) <= MAX_SIMULTANEOUS_NOTES
    /\ ~panicked =>
          [k \in 1..Len(playing_notes) |-> playing_notes[k].frequency]
              = [k \in 1..Len(expected) |-> expected[k].frequency]
    /\ panicked => \A k \in 1..Len(playing_notes) :
                      playing_notes[k].frequency = expected[k].frequency

C9_Witness ==
    /\ panicked
    /\ last.beat_adv
    /\ Len(playing_notes) = MAX_SIMULTANEOUS_NOTES
    /\ Len(expected) > MAX_SIMULTANEOUS_NOTES

\* the fields after pause() on the current state, and after a second pause()
AfterPause == pause(Self)
AfterPauseTwice == pause(pause(Self))

\* C10: pause() on a player that is not paused mutes every channel and sets
\* paused, leaving timer, beat_timer, beat, the cursor and the list alone; on
\* a paused player it changes nothing; pause();pause() ends as pause() does.
C10_PauseIdempotent ==
    /\ [][(last'.op = "pause") =>
             /\ paused'
             /\ AllMuted'
             /\ UNCHANGED <<timer, beat_timer, beat, current_combined_note_index,
                            playing_notes>>
             /\ \A i \in 1..PWM_COUNT :
                    pwms'[i] = [pwms[i] EXCEPT !.duty = IF paused THEN @ ELSE 0]
             /\ paused => (UNCHANGED fields /\ last'.calls = <<>>)]_vars
    /\ [](/\ AfterPauseTwice.pwms = AfterPause.pwms
          /\ AfterPauseTwice.paused = AfterPause.paused
          /\ AfterPauseTwice.timer = AfterPause.timer
          /\ AfterPauseTwice.beat_timer = AfterPause.beat_timer
          /\ AfterPauseTwice.beat = AfterPause.beat
          /\ AfterPauseTwice.current_combined_note_index
                 = AfterPause.current_combined_note_index
          /\ AfterPauseTwice.playing_notes = AfterPause.playing_notes)

\* a pause() that silenced a sounding channel, mid-beat
C10_Witness ==
    /\ last.op = "pause"
    /\ ~last.was_paused
    /\ last.calls # <<>>
    /\ \E i \in 1..PWM_COUNT : pwms[i].frequency # 0
    /\ beat_timer > 0
    /\ Len(playing_notes) > 0

\* the player after pause() then resume(), then after one more tick(); and
\* after that tick() alone
AfterPauseResume == resume(pause(Self))
TickAfterPauseResume == tick([AfterPauseResume EXCEPT !.calls = <<>>])
TickAlone == tick(Self)

\* C11: resume() clears paused and changes nothing else (nothing at all when
\* not paused), so pause() then resume() leaves the counters, the cursor and
\* the list as they were and the next tick() advances the same beat, admits
\* the same notes and returns the same as without the two calls.
C11_ResumeOnlyClearsPaused ==
    /\ [][(last'.op = "resume") =>
             /\ ~paused'
             /\ last'.calls = <<>>
             /\ UNCHANGED <<pwms, timer, beat_timer, beat,
                            current_combined_note_index, playing_notes>>
             /\ panicked' = panicked]_vars
    /\ [](~paused =>
             /\ AfterPauseResume.paused = FALSE
             /\ AfterPauseResume.timer = timer
             /\ AfterPauseResume.beat_timer = beat_timer
             /\ AfterPauseResume.beat = beat
             /\ AfterPauseResume.current_combined_note_index
                    = current_combined_note_index
             /\ AfterPauseResume.playing_notes = playing_notes
             /\ TickAfterPauseResume.ret = TickAlone.ret
             /\ TickAfterPauseResume.beat_adv = TickAlone.beat_adv
             /\ TickAfterPauseResume.beat = TickAlone.beat
             /\ TickAfterPauseResume.timer = TickAlone.timer
             /\ TickAfterPauseResume.beat_timer = TickAlone.beat_timer
             /\ TickAfterPauseResume.playing_notes = TickAlone.playing_notes
             /\ TickAfterPauseResume.panicked = TickAlone.panicked)

\* a resume() mid-beat, with a note sounding, after a pause() (not a stop)
C11_Witness ==
    /\ last.op = "resume"
    /\ last.was_paused
    /\ ~paused
    /\ beat_timer > 0 /\ beat_timer < ticks_per_beat
    /\ Len(playing_notes) > 0

(***************************************************************************)
(* A long run of one player: a one-beat song, not looping, one tick per    *)
(* beat.  Each tick() reaches the loop end and pauses, each resume() lets   *)
(* the next one run.  No counter is capped.                                 *)
(***************************************************************************)
LongInit ==
    /\ song = [notes |-> SingleNotes, end |-> 1]
    /\ looping = FALSE
    /\ ticks_per_beat = 1
    /\ duty = ExampleDuty
    /\ PWM_COUNT = 1
    /\ MAX_SIMULTANEOUS_NOTES = 1
    /\ Constructed

\* tick() on a player that is not paused
LongTick ==
    /\ ~paused
    /\ TickCall

LongNext == LongTick \/ Resume

LongSpec == LongInit /\ [][LongNext]_vars

\* C12: no tick() increments timer or beat_timer out of the u16 range: the
\* increment finds them below 65535, and they return to 0 only by a reset
\* (timer at the loop end when looping, beat_timer at a beat advance).
C12_NoCounterOverflow ==
    [][(last'.op = "tick" /\ ~paused) =>
          /\ timer + 1 < U16
          /\ beat_timer + 1 < U16
          /\ timer' = 0 => (looping /\ timer + 1 = ticks_per_beat * song.end)
          /\ beat_timer' = 0 => last'.beat_adv]_vars

(***************************************************************************)
(* One note of every u16 frequency above 0, played on one channel: the     *)
(* first tick() is beat 0 and passes the frequency to get_top, the second  *)
(* is the loop end.                                                         *)
(***************************************************************************)
FreqDomain == 1..(U16 - 1)

FreqInit ==
    /\ song \in {[notes |-> <<Some(<<NoteAndDuration(f, 1)>>)>>, end |-> 2] :
                    f \in FreqDomain}
    /\ looping = FALSE
    /\ ticks_per_beat = 1
    /\ duty = ExampleDuty
    /\ PWM_COUNT = 1
    /\ MAX_SIMULTANEOUS_NOTES = 1
    /\ Constructed

FreqNext == Tick

FreqSpec == FreqInit /\ [][FreqNext]_vars

\* the frequency of the one note of the score
NoteFrequency == song.notes[1].notes[1].frequency

\* C13: get_top answers a zero divider, a period count below 1 and one above
\* the counter's maximum with an error outcome and not a crash, and accepts a
\* period count of exactly 1; so no frequency the player passes to it (divider
\* 64, 150 MHz) makes tick() panic.
C13_TopErrorIsNoCrash ==
    /\ get_top(2343750, PWM_DIV_INT) = [panic |-> FALSE, top |-> 0]
    /\ ~panicked

\* C14 as stated: the top programmed for an accepted frequency f is
\* round(150000000 / (f * 64)) - 1, rounding to nearest.
C14_TopIsRounded ==
    (last.beat_adv /\ ~panicked) =>
        LET x == NoteFrequency * PWM_DIV_INT
        IN  /\ pwms[1].frequency = NoteFrequency
            /\ pwms[1].top = ((2 * InputClock + x) \div (2 * x)) - 1

\* C14, amended: the top programmed for an accepted frequency f is
\* floor(150000000 / (f * 64)) - 1: top + 1 is the one integer n with
\* n * f * 64 <= 150000000 < (n + 1) * f * 64.
C14_TopIsTruncated ==
    (last.beat_adv /\ ~panicked) =>
        LET x == NoteFrequency * PWM_DIV_INT
            n == pwms[1].top + 1
        IN  /\ pwms[1].frequency = NoteFrequency
            /\ n * x <= InputClock
            /\ InputClock < (n + 1) * x

\* 440 Hz: 150000000 / 28160 = 5326.7, programmed as top 5325
C14_Witness ==
    /\ last.beat_adv /\ ~panicked
    /\ NoteFrequency = 440
    /\ pwms[1] = [frequency |-> 440, top |-> 5325, duty |-> duty]

\* the hardware calls the last call made in play_beat: all of them but the two
\* of the multiplexing step, when that ran to its end
BeatCalls ==
    IF last.mux # -1 /\ ~panicked
    THEN SubSeq(last.calls, 1, Len(last.calls) - 2)
    ELSE last.calls

OnChannel(ch) == LET Is(c) == c.ch = ch IN SelectSeq(BeatCalls, Is)

\* C15: at the end of every beat advance, before the multiplexing step of the
\* same tick, each channel i in [0, PWM_COUNT) has been muted if i >= the
\* number of sounding notes, and otherwise programmed with the frequency of
\* the i-th sounding note at the duty given at construction.
C15_BeatRefreshesChannels ==
    (last.beat_adv /\ ~panicked) =>
        \A i \in 0..(PWM_COUNT - 1) :
            /\ OnChannel(i) = IF i >= Len(playing_notes)
                              THEN <<Off(i)>>
                              ELSE <<Off(i), Tone(i, playing_notes[i + 1].frequency)>>
            /\ (last.mux = -1 \/ i < PWM_COUNT - 1) =>
                    IF i >= Len(playing_notes)
                    THEN Muted(i + 1)
                    ELSE Sounding(i + 1, playing_notes[i + 1].frequency)

C15_Witness ==
    /\ last.beat_adv /\ ~panicked
    /\ PWM_COUNT = 2 /\ Len(playing_notes) = 1
    /\ Sounding(1, playing_notes[1].frequency)
    /\ pwms[2].frequency # 0 /\ Muted(2)

\* C16: a tick() that is not a beat boundary and does not pause the player
\* leaves channels 0..PWM_COUNT-2 exactly as they were; it reprograms channel
\* PWM_COUNT-1, and nothing else, only when more notes sound than there are
\* channels; otherwise no channel and not the multiplex cursor changes.  The
\* loop reset of a looping player makes no hardware call of its own.
C16_OffBeatTickFrame ==
    [][(last'.op = "tick" /\ ~last'.beat_adv /\ paused' = paused /\ ~panicked') =>
          /\ \A i \in 1..(PWM_COUNT - 1) : pwms'[i] = pwms[i]
          /\ playing_notes' = playing_notes
          /\ Len(playing_notes) <= PWM_COUNT =>
                /\ pwms' = pwms
                /\ current_combined_note_index' = current_combined_note_index
                /\ last'.calls = <<>>
          /\ (Len(playing_notes) > PWM_COUNT /\ ~paused) =>
                /\ last'.mux \in 0..(Len(playing_notes) - 1)
                /\ last'.calls =
                      <<Off(PWM_COUNT - 1),
                        Tone(PWM_COUNT - 1, playing_notes[last'.mux + 1].frequency)>>]_vars

\* a looping player went through its loop reset on a tick that was no beat
\* boundary, with a channel sounding
C16_Witness ==
    /\ last.op = "tick" /\ last.ret /\ ~last.beat_adv /\ ~panicked
    /\ looping /\ timer = 0
    /\ Len(playing_notes) > 0 /\ Len(playing_notes) <= PWM_COUNT
    /\ Sounding(1, playing_notes[1].frequency)

\* the notes the score lists in slot b (0-based), none when b has no slot
SlotNotes(b) ==
    IF b >= 0 /\ b < Len(song.notes) /\ song.notes[b + 1].some
    THEN song.notes[b + 1].notes
    ELSE <<>>

StillSounding(n) == n.duration > 0

\* every note of v with one beat less to sound
OneBeatLess(v) == [k \in 1..Len(v) |-> [v[k] EXCEPT !.duration = @ - 1]]

\* C17: a beat advance leaves the sounding-note list as the notes it held,
\* each decremented exactly once, without the expired ones and in their
\* former relative order, followed by the notes of the new beat's slot in the
\* order the score lists them.
C17_ListOrderedByAdmission ==
    [][(last'.op = "tick" /\ last'.beat_adv /\ ~panicked') =>
          playing_notes' =
              SelectSeq(OneBeatLess(playing_notes), StillSounding) \o SlotNotes(beat')]_vars

\* a note in the middle of the list expired and a new one was appended
C17_Witness ==
    /\ last.op = "tick" /\ last.beat_adv /\ ~panicked
    /\ beat = 1
    /\ playing_notes = <<NoteAndDuration(440, 2), NoteAndDuration(660, 1),
                         NoteAndDuration(880, 2)>>

\* C18: in every state between public calls beat_timer < ticks_per_beat: a
\* tick() that brings beat_timer up to ticks_per_beat also advances the beat
\* and resets beat_timer to 0, after any sequence of calls.
C18_BeatTimerBelowTicksPerBeat ==
    ~panicked => beat_timer < ticks_per_beat

\* C19: a looping player driven by tick() alone since construction takes the
\* beats 0, 1, ..., song.end - 1, 0, 1, ...: its k-th beat advance (the one
\* of tick number k * ticks_per_beat) goes to beat (k - 1) mod song.end.
C19_LoopVisitsEverySlot ==
    (looping /\ hist.only /\ last.op = "tick" /\ last.beat_adv /\ ~panicked) =>
        beat = ((hist.n \div ticks_per_beat) - 1) % song.end

\* C20: whenever the multiplexing step reads playing_notes[cursor + PWM_COUNT
\* - 1], that index lies inside the sounding-note list, also when the list
\* changed or the cursor is left over from an earlier overflow.
C20_MultiplexIndexInRange ==
    last.mux # -1 =>
        /\ last.mux >= PWM_COUNT - 1
        /\ last.mux < Len(playing_notes)

\* the step found a cursor beyond the list it now has and restarted at 0
C20_Witness ==
    /\ last.op = "tick" /\ last.mux # -1 /\ ~panicked
    /\ last.was_index > Len(playing_notes) - PWM_COUNT
    /\ last.mux = PWM_COUNT - 1

====
